---------------------------- MODULE Spec2Model ----------------------------
(***************************************************************************)
(* Filesystem tool group of the dive default MCP server                    *)
(* (src/src/service/fs.rs): read_file, write_file, list_directory,         *)
(* create_directory and delete_file over a host filesystem.                *)
(*                                                                         *)
(* Text (a Rust String) is a sequence of bytes that is valid UTF-8; file   *)
(* data is any sequence of bytes.  A path is the sequence of its component *)
(* names, <<>> being the root directory; a name is a sequence of bytes.    *)
(***************************************************************************)
EXTENDS Integers, Sequences, FiniteSets, TLC

VARIABLES fs, rd, last, prev

vars == <<fs, rd, last, prev>>

(***************************************************************************)
(* Bytes and text                                                          *)
(***************************************************************************)
Min(a, b) == IF a < b THEN a ELSE b

Take(b, n) == SubSeq(b, 1, Min(Len(b), n))

\* Variant: a sample of 16 KiB instead of 8 KiB
BUFFER_SIZE_16K == 2 * 8192

\* vec![0u8; 8192]: the size of the sample is_binary_file reads
BUFFER_SIZE == 8192

\* "[Binary file encoded as base64]\n"
BinaryMarker ==
    <<91, 66, 105, 110, 97, 114, 121, 32, 102, 105, 108, 101, 32, 101, 110,
      99, 111, 100, 101, 100, 32, 97, 115, 32, 98, 97, 115, 101, 54, 52, 93, 10>>

\* "Successfully wrote to "
WroteMsg ==
    <<83, 117, 99, 99, 101, 115, 115, 102, 117, 108, 108, 121, 32, 119, 114,
      111, 116, 101, 32, 116, 111, 32>>

\* "Successfully created directory: "
CreatedMsg ==
    <<83, 117, 99, 99, 101, 115, 115, 102, 117, 108, 108, 121, 32, 99, 114,
      101, 97, 116, 101, 100, 32, 100, 105, 114, 101, 99, 116, 111, 114, 121,
      58, 32>>

\* "Successfully deleted file: "
DeletedMsg ==
    <<83, 117, 99, 99, 101, 115, 115, 102, 117, 108, 108, 121, 32, 100, 101,
      108, 101, 116, 101, 100, 32, 102, 105, 108, 101, 58, 32>>

\* "directory" and "file", the two file_type labels of list_directory
DirectoryLabel == <<100, 105, 114, 101, 99, 116, 111, 114, 121>>

FileLabel == <<102, 105, 108, 101>>

\* format!("{} ({})", file_name, file_type)
EntryLine(file_name, file_type) == file_name \o <<32, 40>> \o file_type \o <<41>>

\* items.join("\n")
RECURSIVE JoinLines(_)
JoinLines(items) ==
    IF Len(items) = 0 THEN <<>>
    ELSE IF Len(items) = 1 THEN items[1]
    ELSE items[1] \o <<10>> \o JoinLines(Tail(items))

\* buffer[..bytes_read].contains(&0)
ContainsNull(b) == \E i \in 1..Len(b) : b[i] = 0

(***************************************************************************)
(* UTF-8 validation, as String::from_utf8 / OsString::into_string decide   *)
(* it: every byte either starts a well-formed character or lies inside     *)
(* one.                                                                    *)
(***************************************************************************)
IsContinuation(c) == c \in 128..191

Utf8Width(c) ==
    IF c < 128 THEN 1
    ELSE IF c \in 194..223 THEN 2
    ELSE IF c \in 224..239 THEN 3
    ELSE IF c \in 240..244 THEN 4
    ELSE 0

SecondByteOk(lead, c) ==
    CASE lead = 224 -> c \in 160..191
      [] lead = 237 -> c \in 128..159
      [] lead = 240 -> c \in 144..191
      [] lead = 244 -> c \in 128..143
      [] OTHER -> IsContinuation(c)

StartsChar(b, i) ==
    LET w == Utf8Width(b[i])
    IN /\ w # 0
       /\ i + w - 1 <= Len(b)
       /\ w >= 2 => SecondByteOk(b[i], b[i + 1])
       /\ w >= 3 => IsContinuation(b[i + 2])
       /\ w = 4 => IsContinuation(b[i + 3])

InsideChar(b, i) ==
    /\ IsContinuation(b[i])
    /\ \E k \in 1..3 :
          /\ i - k >= 1
          /\ Utf8Width(b[i - k]) > k
          /\ \A j \in 1..(k - 1) : IsContinuation(b[i - j])

Utf8Valid(b) == \A i \in 1..Len(b) : StartsChar(b, i) \/ InsideChar(b, i)

(***************************************************************************)
(* Base64, standard alphabet with padding (general_purpose::STANDARD)      *)
(***************************************************************************)
Base64Char(s) ==
    IF s < 26 THEN 65 + s
    ELSE IF s < 52 THEN 97 + (s - 26)
    ELSE IF s < 62 THEN 48 + (s - 52)
    ELSE IF s = 62 THEN 43
    ELSE 47

ByteAt(b, i) == IF i <= Len(b) THEN b[i] ELSE 0

Sextet(b, g, j) ==
    LET v == ByteAt(b, 3 * g + 1) * 65536 + ByteAt(b, 3 * g + 2) * 256
             + ByteAt(b, 3 * g + 3)
    IN CASE j = 0 -> v \div 262144
         [] j = 1 -> (v \div 4096) % 64
         [] j = 2 -> (v \div 64) % 64
         [] OTHER -> v % 64

\* Variant: the same encoding without the "=" padding (STANDARD_NO_PAD)
Base64EncodeNoPad(b) ==
    [k \in 1..((4 * Len(b) + 2) \div 3) |->
        Base64Char(Sextet(b, (k - 1) \div 4, (k - 1) % 4))]

Base64Encode(b) ==
    LET n == Len(b)
    IN [k \in 1..(4 * ((n + 2) \div 3)) |->
          LET g == (k - 1) \div 4
              j == (k - 1) % 4
          IN IF (j = 2 /\ 3 * g + 2 > n) \/ (j = 3 /\ 3 * g + 3 > n)
             THEN 61
             ELSE Base64Char(Sextet(b, g, j))]

(***************************************************************************)
(* The host filesystem.  fs maps every path of the modelled universe to a  *)
(* node; the root <<>> is always a directory.  A node of kind "symlink" is *)
(* a dangling symbolic link: it has a directory entry, and a metadata      *)
(* lookup that follows it fails.                                           *)
(***************************************************************************)
NoNode == [kind |-> "none", data |-> <<>>]

DirNode == [kind |-> "dir", data |-> <<>>]

SymlinkNode == [kind |-> "symlink", data |-> <<>>]

FileNode(bytes) == [kind |-> "file", data |-> bytes]

Kind(f, p) ==
    IF p = <<>> THEN "dir"
    ELSE IF p \in DOMAIN f THEN f[p].kind
    ELSE "none"

Parent(p) == SubSeq(p, 1, Len(p) - 1)

\* The error of walking to p's parent directory, "" when the walk succeeds.
AncestorErr(f, p) ==
    LET bad == {k \in 1..(Len(p) - 1) : Kind(f, SubSeq(p, 1, k)) # "dir"}
    IN IF bad = {} THEN ""
       ELSE LET k == CHOOSE x \in bad : \A y \in bad : x <= y
            IN IF Kind(f, SubSeq(p, 1, k)) = "file" THEN "NotADirectory"
               ELSE "NotFound"

\* File::open(path) followed by reading from it (fs::File::open, fs::read).
OpenAndRead(f, p) ==
    IF AncestorErr(f, p) # "" THEN [err |-> AncestorErr(f, p), data |-> <<>>]
    ELSE IF Kind(f, p) \in {"none", "symlink"} THEN [err |-> "NotFound", data |-> <<>>]
    ELSE IF Kind(f, p) = "dir" THEN [err |-> "IsADirectory", data |-> <<>>]
    ELSE [err |-> "", data |-> f[p].data]

\* fs::read_to_string(path): the bytes, when they are valid UTF-8
ReadToString(f, p) ==
    LET r == OpenAndRead(f, p)
    IN IF r.err = "" /\ ~Utf8Valid(r.data) THEN [err |-> "InvalidData", data |-> <<>>]
       ELSE r

\* Variant: the file is opened for appending instead of being truncated
FsWriteAppend(f, p, content) ==
    IF AncestorErr(f, p) # "" THEN [err |-> AncestorErr(f, p), fs |-> f]
    ELSE IF Kind(f, p) = "dir" THEN [err |-> "IsADirectory", fs |-> f]
    ELSE [err |-> "", fs |-> [f EXCEPT ![p] = FileNode(f[p].data \o content)]]

\* fs::write(path, content): create or truncate, then write the content
FsWrite(f, p, content) ==
    IF AncestorErr(f, p) # "" THEN [err |-> AncestorErr(f, p), fs |-> f]
    ELSE IF Kind(f, p) = "dir" THEN [err |-> "IsADirectory", fs |-> f]
    ELSE [err |-> "", fs |-> [f EXCEPT ![p] = FileNode(content)]]

\* Variant: whatever the path names is removed, a directory with all below it
FsRemoveAny(f, p) ==
    IF AncestorErr(f, p) # "" THEN [err |-> AncestorErr(f, p), fs |-> f]
    ELSE IF Kind(f, p) = "none" THEN [err |-> "NotFound", fs |-> f]
    ELSE IF p = <<>> THEN [err |-> "IsADirectory", fs |-> f]
    ELSE [err |-> "",
          fs |-> [q \in DOMAIN f |->
                    IF Len(q) >= Len(p) /\ SubSeq(q, 1, Len(p)) = p THEN NoNode ELSE f[q]]]

\* fs::remove_file(path): unlink
FsRemoveFile(f, p) ==
    IF AncestorErr(f, p) # "" THEN [err |-> AncestorErr(f, p), fs |-> f]
    ELSE IF Kind(f, p) = "none" THEN [err |-> "NotFound", fs |-> f]
    ELSE IF Kind(f, p) = "dir" THEN [err |-> "IsADirectory", fs |-> f]
    ELSE [err |-> "", fs |-> [f EXCEPT ![p] = NoNode]]

\* mkdir(path)
Mkdir(f, p) ==
    IF AncestorErr(f, p) # "" THEN [err |-> AncestorErr(f, p), fs |-> f]
    ELSE IF Kind(f, p) # "none" THEN [err |-> "AlreadyExists", fs |-> f]
    ELSE [err |-> "", fs |-> [f EXCEPT ![p] = DirNode]]

\* Variant: fs::create_dir, a single mkdir
FsCreateDir(f, p) == Mkdir(f, p)

\* fs::create_dir_all(path): mkdir, creating the missing parents first
RECURSIVE FsCreateDirAll(_, _)
FsCreateDirAll(f, p) ==
    LET first == Mkdir(f, p)
    IN IF first.err = "" THEN first
       ELSE IF first.err # "NotFound"
       THEN IF Kind(f, p) = "dir" THEN [err |-> "", fs |-> f] ELSE first
       ELSE LET up == FsCreateDirAll(f, Parent(p))
            IN IF up.err # "" THEN up
               ELSE LET again == Mkdir(up.fs, p)
                    IN IF again.err # "" /\ Kind(up.fs, p) = "dir"
                       THEN [err |-> "", fs |-> up.fs]
                       ELSE again

\* The entries of directory p: the paths one level below it that exist.
Children(f, p) ==
    {q \in DOMAIN f : Len(q) = Len(p) + 1 /\ Parent(q) = p /\ f[q].kind # "none"}

\* fs::read_dir(path)
FsReadDir(f, p) ==
    IF AncestorErr(f, p) # "" THEN [err |-> AncestorErr(f, p), entries |-> {}]
    ELSE IF Kind(f, p) \in {"none", "symlink"} THEN [err |-> "NotFound", entries |-> {}]
    ELSE IF Kind(f, p) = "file" THEN [err |-> "NotADirectory", entries |-> {}]
    ELSE [err |-> "", entries |-> Children(f, p)]

\* The String a tool receives for path p: "/" and the names joined by "/".
RECURSIVE PathStr(_)
PathStr(p) ==
    IF Len(p) = 0 THEN <<47>>
    ELSE IF Len(p) = 1 THEN <<47>> \o p[1]
    ELSE PathStr(Parent(p)) \o <<47>> \o p[Len(p)]

(***************************************************************************)
(* Results of a tool call                                                  *)
(***************************************************************************)
NoResult == [ok |-> FALSE, content |-> <<>>, code |-> "", message |-> <<>>]

\* CallToolResult::success(vec![Content::text(text)])
Success(text) == [ok |-> TRUE, content |-> <<text>>, code |-> "", message |-> <<>>]

\* McpError::new(ErrorCode::INTERNAL_ERROR, format!("Failed to <verb>: {}", e), None)
InternalError(verb, e) ==
    [ok |-> FALSE, content |-> <<>>, code |-> "INTERNAL_ERROR",
     message |-> <<"Failed to ", verb, ": ", e>>]

(***************************************************************************)
(* The handlers of the filesystem tool group, as functions of the          *)
(* filesystem they run on.  Each returns the result of the call, and the   *)
(* filesystem it leaves where it changes it.                               *)
(***************************************************************************)
\* Variant: the null byte is looked for in the whole zero-filled buffer, not
\* only in buffer[..bytes_read]
is_binary_file_whole_buffer(f, path) ==
    LET r == OpenAndRead(f, path)
        buffer == Take(r.data, BUFFER_SIZE)
    IN [err |-> r.err, buffer |-> buffer,
        is_binary |-> ContainsNull(buffer) \/ (r.err = "" /\ Len(buffer) < BUFFER_SIZE)]

\* is_binary_file(path): open, read up to BUFFER_SIZE bytes, look for a null
is_binary_file(f, path) ==
    LET r == OpenAndRead(f, path)
        buffer == Take(r.data, BUFFER_SIZE)
    IN [err |-> r.err, buffer |-> buffer, is_binary |-> ContainsNull(buffer)]

\* read_file after the classification: the binary or the text branch
read_file_content(f, path, is_binary) ==
    IF is_binary
    THEN LET r == OpenAndRead(f, path)
         IN IF r.err = ""
            THEN Success(BinaryMarker \o Base64Encode(r.data))
            ELSE InternalError("read binary file", r.err)
    ELSE LET r == ReadToString(f, path)
         IN IF r.err = ""
            THEN Success(r.data)
            ELSE InternalError("read file", r.err)

write_file(f, path, content) ==
    LET w == FsWrite(f, path, content)
    IN [fs |-> w.fs,
        result |-> IF w.err = ""
                   THEN Success(WroteMsg \o PathStr(path))
                   ELSE InternalError("write file", w.err)]

\* Variant: file_name().to_string_lossy(), which keeps every entry and puts
\* U+FFFD for a name that is not text
RECURSIVE ListItemsLossy(_, _)
ListItemsLossy(f, entries) ==
    IF Len(entries) = 0 THEN <<>>
    ELSE LET entry == entries[1]
             file_name == entry[Len(entry)]
             file_type == IF Kind(f, entry) = "dir" THEN DirectoryLabel ELSE FileLabel
         IN <<EntryLine(IF Utf8Valid(file_name) THEN file_name ELSE <<239, 191, 189>>,
                        file_type)>>
               \o ListItemsLossy(f, Tail(entries))

\* entry.file_name().into_string() and entry.path().is_dir(), per entry
RECURSIVE ListItems(_, _)
ListItems(f, entries) ==
    IF Len(entries) = 0 THEN <<>>
    ELSE LET entry == entries[1]
             file_name == entry[Len(entry)]
             file_type == IF Kind(f, entry) = "dir" THEN DirectoryLabel ELSE FileLabel
         IN IF Utf8Valid(file_name)
            THEN <<EntryLine(file_name, file_type)>> \o ListItems(f, Tail(entries))
            ELSE ListItems(f, Tail(entries))

\* list_directory(path), where next_entry() yields `yielded`, in this order,
\* before it returns Ok(None) or an Err
list_directory(f, path, yielded) ==
    LET d == FsReadDir(f, path)
    IN IF d.err = ""
       THEN Success(JoinLines(ListItems(f, yielded)))
       ELSE InternalError("list directory", d.err)

create_directory(f, path) ==
    LET c == FsCreateDirAll(f, path)
    IN [fs |-> c.fs,
        result |-> IF c.err = ""
                   THEN Success(CreatedMsg \o PathStr(path))
                   ELSE InternalError("create directory", c.err)]

\* Variant: a missing file is reported under another error code
delete_file_not_found(f, path) ==
    LET r == FsRemoveFile(f, path)
    IN [fs |-> r.fs,
        result |-> IF r.err = ""
                   THEN Success(DeletedMsg \o PathStr(path))
                   ELSE IF r.err = "NotFound"
                   THEN [ok |-> FALSE, content |-> <<>>, code |-> "RESOURCE_NOT_FOUND",
                         message |-> <<"Failed to ", "delete file", ": ", r.err>>]
                   ELSE InternalError("delete file", r.err)]

delete_file(f, path) ==
    LET r == FsRemoveFile(f, path)
    IN [fs |-> r.fs,
        result |-> IF r.err = ""
                   THEN Success(DeletedMsg \o PathStr(path))
                   ELSE InternalError("delete file", r.err)]

(***************************************************************************)
(* State.  fs is the filesystem.  rd is the read_file invocation in        *)
(* flight: read_file opens the file twice, in is_binary_file and again to  *)
(* read the content, and other calls may run between the two.  last is the *)
(* most recent completed call and prev the tool, path and outcome of the   *)
(* call completed before it.                                               *)
(***************************************************************************)
IdleRd == [pc |-> "idle", path |-> <<>>, is_binary |-> FALSE, buffer |-> <<>>]

NoCall ==
    [tool |-> "none", path |-> <<>>, content |-> <<>>, result |-> NoResult,
     enum_err |-> FALSE]

NoPrev == [tool |-> "none", path |-> <<>>, ok |-> FALSE]

Call(tool, path, content, result, enum_err) ==
    [tool |-> tool, path |-> path, content |-> content, result |-> result,
     enum_err |-> enum_err]

Complete(call) ==
    /\ last' = call
    /\ prev' = [tool |-> last.tool, path |-> last.path, ok |-> last.result.ok]

\* read_file, first half: is_binary_file; its error ends the call
ReadFileCheck(p) ==
    /\ rd.pc = "idle"
    /\ LET c == is_binary_file(fs, p)
       IN IF c.err # ""
          THEN /\ Complete(Call("read_file", p, <<>>,
                                InternalError("check file type", c.err), FALSE))
               /\ UNCHANGED <<fs, rd>>
          ELSE /\ rd' = [pc |-> "classified", path |-> p,
                         is_binary |-> c.is_binary, buffer |-> c.buffer]
               /\ UNCHANGED <<fs, last, prev>>

\* read_file, second half: read the content and build the result
ReadFileRead ==
    /\ rd.pc = "classified"
    /\ Complete(Call("read_file", rd.path, <<>>,
                     read_file_content(fs, rd.path, rd.is_binary), FALSE))
    /\ rd' = IdleRd
    /\ UNCHANGED fs

WriteFile(p, content) ==
    LET w == write_file(fs, p, content)
    IN /\ fs' = w.fs
       /\ Complete(Call("write_file", p, content, w.result, FALSE))
       /\ UNCHANGED rd

\* The orders in which a directory's entries may be enumerated.
Orderings(S) ==
    {o \in [1..Cardinality(S) -> S] : \A i, j \in 1..Cardinality(S) : o[i] = o[j] => i = j}

ListDirectory(p) ==
    \E order \in Orderings(FsReadDir(fs, p).entries) :
       \E n \in 0..Len(order) :
          /\ Complete(Call("list_directory", p, <<>>,
                           list_directory(fs, p, SubSeq(order, 1, n)),
                           n < Len(order)))
          /\ UNCHANGED <<fs, rd>>

CreateDirectory(p) ==
    LET c == create_directory(fs, p)
    IN /\ fs' = c.fs
       /\ Complete(Call("create_directory", p, <<>>, c.result, FALSE))
       /\ UNCHANGED rd

DeleteFile(p) ==
    LET d == delete_file(fs, p)
    IN /\ fs' = d.fs
       /\ Complete(Call("delete_file", p, <<>>, d.result, FALSE))
       /\ UNCHANGED rd

(***************************************************************************)
(* Universes.  A tool receives its path as a String, so it can only name   *)
(* paths whose names are all valid UTF-8; a directory may still hold       *)
(* entries with other names.                                               *)
(***************************************************************************)
NameD == <<100>>

NameF == <<102>>

\* a file name that is not valid UTF-8
NameX == <<255>>

IsTextPath(p) == \A i \in 1..Len(p) : Utf8Valid(p[i])

ToolPaths(paths) == {<<>>} \cup {p \in paths : IsTextPath(p)}

\* Entries exist only in directories.
WellFormed(f) == \A p \in DOMAIN f : f[p].kind # "none" => Kind(f, Parent(p)) = "dir"

Nodes(data) == {NoNode, DirNode, SymlinkNode} \cup {FileNode(b) : b \in data}

\* String content a caller can pass: valid UTF-8
Writable(data) == {b \in data : Utf8Valid(b)}

\* A small tree: /d, /f, /d/f and /d/<ff>, an entry whose name is not text.
TreePaths == {<<NameD>>, <<NameF>>, <<NameD, NameF>>, <<NameD, NameX>>}

TreeData == {<<65>>, <<0>>}

TreeToolPaths == ToolPaths(TreePaths)

TreeWritable == Writable(TreeData)

TreeInit ==
    /\ fs \in {f \in [TreePaths -> Nodes(TreeData)] :
                 /\ WellFormed(f)
                 /\ \A p \in TreePaths :
                       ~IsTextPath(p) => f[p] \in {NoNode, FileNode(<<65>>)}}
    /\ rd = IdleRd
    /\ last = NoCall
    /\ prev = NoPrev

\* Calls are handled one at a time: a call starts when none is in flight.
Next ==
    \/ \E p \in TreeToolPaths : ReadFileCheck(p)
    \/ ReadFileRead
    \/ \E p \in TreeToolPaths, c \in TreeWritable :
          rd.pc = "idle" /\ WriteFile(p, c)
    \/ \E p \in TreeToolPaths : rd.pc = "idle" /\ ListDirectory(p)
    \/ \E p \in TreeToolPaths : rd.pc = "idle" /\ CreateDirectory(p)
    \/ \E p \in TreeToolPaths : rd.pc = "idle" /\ DeleteFile(p)

Spec == TreeInit /\ [][Next]_vars

(***************************************************************************)
(* One file, /f, with every content of up to MaxLen bytes over a small     *)
(* alphabet (a null, an ASCII letter, and the two bytes of U+00E9) and two *)
(* contents of 8193 bytes, longer than the sample: one whose only null     *)
(* byte is the last byte of the sample, one whose only null byte is the    *)
(* first byte after it.                                                    *)
(***************************************************************************)
MaxLen == 2

ByteAlphabet == {0, 65, 195, 169}

ShortData == UNION {[1..n -> ByteAlphabet] : n \in 0..MaxLen}

NullAt8192 == [i \in 1..8191 |-> 65] \o <<0, 65>>

NullAt8193 == [i \in 1..8192 |-> 65] \o <<0>>

FileData == ShortData \cup {NullAt8192, NullAt8193}

FilePaths == {<<NameF>>}

FileToolPaths == ToolPaths(FilePaths)

FileWritable == Writable(FileData)

FileInit ==
    /\ fs \in {f \in [FilePaths -> Nodes(FileData)] : WellFormed(f)}
    /\ rd = IdleRd
    /\ last = NoCall
    /\ prev = NoPrev

NextFile ==
    \/ \E p \in FileToolPaths : ReadFileCheck(p)
    \/ ReadFileRead
    \/ \E p \in FileToolPaths, c \in FileWritable :
          rd.pc = "idle" /\ WriteFile(p, c)
    \/ \E p \in FileToolPaths : rd.pc = "idle" /\ ListDirectory(p)
    \/ \E p \in FileToolPaths : rd.pc = "idle" /\ CreateDirectory(p)
    \/ \E p \in FileToolPaths : rd.pc = "idle" /\ DeleteFile(p)

SpecFile == FileInit /\ [][NextFile]_vars

(***************************************************************************)
(* Concurrent invocations: the other tools run between the two halves of a *)
(* read_file in flight (no application-level locking).                     *)
(***************************************************************************)
ConcData == {<<>>, <<65>>, <<0>>, <<0, 65>>, <<195>>}

ConcWritable == Writable(ConcData)

ConcInit ==
    /\ fs \in {f \in [FilePaths -> Nodes(ConcData)] : WellFormed(f)}
    /\ rd = IdleRd
    /\ last = NoCall
    /\ prev = NoPrev

NextConc ==
    \/ \E p \in FileToolPaths : ReadFileCheck(p)
    \/ ReadFileRead
    \/ \E p \in FileToolPaths, c \in ConcWritable : WriteFile(p, c)
    \/ \E p \in FileToolPaths : ListDirectory(p)
    \/ \E p \in FileToolPaths : CreateDirectory(p)
    \/ \E p \in FileToolPaths : DeleteFile(p)

SpecConc == ConcInit /\ [][NextConc]_vars

(***************************************************************************)
(* What the properties below speak of: the marker, base64 decoding, the    *)
(* lines of a listing.  These are written from the statements, not from    *)
(* the handlers.                                                           *)
(***************************************************************************)
HasMarker(text) == Len(text) >= 32 /\ SubSeq(text, 1, 32) = BinaryMarker

AfterMarker(text) == SubSeq(text, 33, Len(text))

Base64Value(c) ==
    IF c \in 65..90 THEN c - 65
    ELSE IF c \in 97..122 THEN c - 71
    ELSE IF c \in 48..57 THEN c + 4
    ELSE IF c = 43 THEN 62
    ELSE IF c = 47 THEN 63
    ELSE -1

PadCount(t) ==
    IF Len(t) >= 2 /\ t[Len(t)] = 61 /\ t[Len(t) - 1] = 61 THEN 2
    ELSE IF Len(t) >= 1 /\ t[Len(t)] = 61 THEN 1
    ELSE 0

\* A standard-alphabet base64 string: whole groups of four, padded with "=".
IsStandardBase64(t) ==
    /\ Len(t) % 4 = 0
    /\ \A i \in 1..(Len(t) - PadCount(t)) : Base64Value(t[i]) >= 0

Base64Decode(t) ==
    [k \in 1..(3 * (Len(t) \div 4) - PadCount(t)) |->
        LET g == (k - 1) \div 3
            j == (k - 1) % 3
            val(i) == IF t[4 * g + i] = 61 THEN 0 ELSE Base64Value(t[4 * g + i])
            v == val(1) * 262144 + val(2) * 4096 + val(3) * 64 + val(4)
        IN CASE j = 0 -> v \div 65536
             [] j = 1 -> (v \div 256) % 256
             [] OTHER -> v % 256]

\* The file a completed read_file call read, when its path holds a file.
ReadOfFile == last.tool = "read_file" /\ Kind(fs, last.path) = "file"

FileBytes == fs[last.path].data

NoNullInWindow(bytes) == \A i \in 1..Min(Len(bytes), 8192) : bytes[i] # 0

(***************************************************************************)
(* C1.  As stated: for every existing readable file whose first 8192 bytes *)
(* contain no null byte, read_file succeeds and returns exactly one text   *)
(* item equal to the file's full content, with no marker prepended.        *)
(***************************************************************************)
C1_AsStated ==
    (ReadOfFile /\ NoNullInWindow(FileBytes)) => last.result = Success(FileBytes)

\* C1, amended: the same, for files whose whole content is valid UTF-8; a
\* file without a null byte in its first 8192 bytes whose content is not valid
\* UTF-8 makes read_file fail with the Internal Error "Failed to read file".
C1_TextVerbatim ==
    (ReadOfFile /\ NoNullInWindow(FileBytes)) =>
        IF Utf8Valid(FileBytes)
        THEN last.result = Success(FileBytes)
        ELSE /\ ~last.result.ok
             /\ last.result.code = "INTERNAL_ERROR"
             /\ last.result.message[2] = "read file"

\* A file longer than the sample, with a null byte after the first 8192
\* bytes, was read and came back verbatim.
C1_Witness ==
    /\ ReadOfFile
    /\ Len(FileBytes) > 8192
    /\ NoNullInWindow(FileBytes)
    /\ \E i \in 1..Len(FileBytes) : FileBytes[i] = 0
    /\ last.result = Success(FileBytes)

(***************************************************************************)
(* C2.  For every existing readable file with a null byte within its first *)
(* 8192 bytes, read_file succeeds with one text item that begins with the  *)
(* marker line, the rest being a standard base64 string that decodes to    *)
(* exactly the bytes of the whole file.                                    *)
(***************************************************************************)
C2_BinaryRoundTrip ==
    (ReadOfFile /\ ~NoNullInWindow(FileBytes)) =>
        /\ last.result.ok
        /\ Len(last.result.content) = 1
        /\ HasMarker(last.result.content[1])
        /\ IsStandardBase64(AfterMarker(last.result.content[1]))
        /\ Base64Decode(AfterMarker(last.result.content[1])) = FileBytes

\* A binary file longer than the sample was read and decodes to all its bytes.
C2_Witness ==
    /\ ReadOfFile
    /\ Len(FileBytes) > 8192
    /\ ~NoNullInWindow(FileBytes)
    /\ last.result.ok
    /\ Base64Decode(AfterMarker(last.result.content[1])) = FileBytes

(***************************************************************************)
(* C3.  A successful write_file(path, content), content having no null     *)
(* byte in its first 8192 bytes, followed immediately by read_file(path),  *)
(* returns a content item equal to content, whatever the file held before. *)
(***************************************************************************)
C3_WriteThenRead ==
    [][(/\ last.tool = "write_file"
        /\ last.result.ok
        /\ NoNullInWindow(last.content)
        /\ last'.tool = "read_file"
        /\ last'.path = last.path)
       => last'.result = Success(last.content)]_vars

\* A read_file that followed a successful write_file of the same path returned
\* text that is longer than the sample and has a null byte after it.
C3_Witness ==
    /\ last.tool = "read_file"
    /\ prev = [tool |-> "write_file", path |-> last.path, ok |-> TRUE]
    /\ last.result.ok
    /\ Len(last.result.content[1]) > 8192
    /\ ~HasMarker(last.result.content[1])

(***************************************************************************)
(* C5.  Every call of the five tools ends either in a success carrying     *)
(* exactly one text item, or in one error of category Internal Error whose *)
(* message is "Failed to <verb>: <cause>"; this holds with the calls       *)
(* interleaved.                                                            *)
(***************************************************************************)
FsTools == {"read_file", "write_file", "list_directory", "create_directory", "delete_file"}

IoErrors == {"NotFound", "NotADirectory", "IsADirectory", "AlreadyExists", "InvalidData"}

IsOneTextItem(r) ==
    /\ r.ok
    /\ Len(r.content) = 1
    /\ r.code = ""
    /\ r.message = <<>>

IsInternalError(r) ==
    /\ ~r.ok
    /\ r.content = <<>>
    /\ r.code = "INTERNAL_ERROR"
    /\ Len(r.message) = 4
    /\ r.message[1] = "Failed to "
    /\ r.message[3] = ": "
    /\ r.message[4] \in IoErrors

C5_OneOutcome ==
    last.tool \in FsTools => (IsOneTextItem(last.result) \/ IsInternalError(last.result))

\* A read_file whose file was classified binary and then removed before the
\* content was read: the error of the binary branch.
C5_Witness ==
    /\ last.tool = "read_file"
    /\ IsInternalError(last.result)
    /\ last.result.message[2] = "read binary file"
    /\ prev.tool = "delete_file"
    /\ prev.ok

(***************************************************************************)
(* C6.  As stated: list_directory on a readable directory returns the      *)
(* newline-join of one line "<name> (directory)" or "<name> (file)" for    *)
(* exactly the entries whose name is text and whose metadata lookup        *)
(* succeeds; every other entry is omitted; an empty directory gives "".    *)
(***************************************************************************)
HasTextName(q) == Utf8Valid(q[Len(q)])

LineOf(f, q) ==
    q[Len(q)] \o <<32, 40>>
        \o (IF Kind(f, q) = "dir" THEN DirectoryLabel ELSE FileLabel) \o <<41>>

RECURSIVE LinesOf(_, _)
LinesOf(f, qs) ==
    IF Len(qs) = 0 THEN <<>>
    ELSE IF Len(qs) = 1 THEN LineOf(f, qs[1])
    ELSE LineOf(f, qs[1]) \o <<10>> \o LinesOf(f, Tail(qs))

ListedDir == last.tool = "list_directory" /\ Kind(fs, last.path) = "dir"

C6_AsStated ==
    (ListedDir /\ ~last.enum_err) =>
        \E order \in Orderings({q \in Children(fs, last.path) :
                                   HasTextName(q) /\ Kind(fs, q) # "symlink"}) :
            last.result = Success(LinesOf(fs, order))

\* C6, amended: the text is the newline-join of one line for every entry the
\* enumeration yields whose name is text, "<name> (directory)" when the entry
\* is a directory and "<name> (file)" otherwise, also when its metadata lookup
\* fails; only entries whose name is not text are omitted, and an enumeration
\* error ends the listing silently with the lines gathered so far.
C6_Listing ==
    ListedDir =>
        \E order \in Orderings(Children(fs, last.path)) :
            \E n \in 0..Len(order) :
                /\ ~last.enum_err => n = Len(order)
                /\ last.result =
                     Success(LinesOf(fs, SelectSeq(SubSeq(order, 1, n), HasTextName)))

\* A directory holding a dangling symlink and an entry whose name is not text
\* was listed in full: the symlink is listed as a file, the other omitted.
C6_Witness ==
    /\ ListedDir
    /\ ~last.enum_err
    /\ \E q \in Children(fs, last.path) : ~HasTextName(q)
    /\ \E q \in Children(fs, last.path) :
          /\ Kind(fs, q) = "symlink"
          /\ last.result = Success(q[Len(q)] \o <<32, 40>> \o FileLabel \o <<41>>)

(***************************************************************************)
(* C7.  As stated: delete_file on a directory fails with an Internal Error *)
(* and leaves the directory in place; delete_file only ever removes a      *)
(* single regular file.                                                    *)
(***************************************************************************)
C7_AsStated ==
    [][\A p \in TreeToolPaths :
          DeleteFile(p) =>
             /\ Kind(fs, p) = "dir" => (IsInternalError(last'.result) /\ fs' = fs)
             /\ last'.result.ok =>
                   (Kind(fs, p) = "file" /\ fs' = [fs EXCEPT ![p] = NoNode])
             /\ ~last'.result.ok => fs' = fs]_vars

\* C7, amended: delete_file on a directory fails with an Internal Error and
\* leaves the directory in place; delete_file only ever removes the single
\* entry it names, which is never a directory: a regular file, or a symbolic
\* link (the link itself).
C7_DeleteFile ==
    [][\A p \in TreeToolPaths :
          DeleteFile(p) =>
             /\ Kind(fs, p) = "dir" => (IsInternalError(last'.result) /\ fs' = fs)
             /\ last'.result.ok =>
                   (Kind(fs, p) \in {"file", "symlink"} /\ fs' = [fs EXCEPT ![p] = NoNode])
             /\ ~last'.result.ok => fs' = fs]_vars

\* delete_file was called on a directory below the root: it failed, and the
\* directory is in place.
C7_Witness ==
    /\ last.tool = "delete_file"
    /\ Len(last.path) = 1
    /\ Kind(fs, last.path) = "dir"
    /\ IsInternalError(last.result)
    /\ last.result.message[4] = "IsADirectory"

(***************************************************************************)
(* C8.  As stated: for any path, calling create_directory twice in a row   *)
(* succeeds both times.                                                    *)
(***************************************************************************)
C8_AsStated ==
    (/\ last.tool = "create_directory"
     /\ prev.tool = "create_directory"
     /\ prev.path = last.path)
    => (prev.ok /\ last.result.ok)

AllDirs(f, p) == \A k \in 1..Len(p) : Kind(f, SubSeq(p, 1, k)) = "dir"

\* C8, amended: for any path on which create_directory succeeds, the path and
\* all its parents are directories afterwards, and calling create_directory
\* again at once succeeds with the same message and leaves the filesystem as
\* the first call left it.  (On a path that is, or lies below, a file or a
\* dangling symlink, both calls fail.)
C8_Idempotent ==
    [][\A p \in TreeToolPaths :
          CreateDirectory(p) =>
             /\ last'.result.ok => AllDirs(fs', p)
             /\ (last.tool = "create_directory" /\ last.path = p /\ last.result.ok)
                   => (last'.result = last.result /\ fs' = fs)]_vars

\* create_directory succeeded twice in a row on a path two levels deep.
C8_Witness ==
    /\ last.tool = "create_directory"
    /\ Len(last.path) = 2
    /\ last.result = Success(CreatedMsg \o PathStr(last.path))
    /\ prev = [tool |-> "create_directory", path |-> last.path, ok |-> TRUE]
    /\ AllDirs(fs, last.path)

(***************************************************************************)
(* C10.  As stated: under every interleaving of read_file with write_file  *)
(* and delete_file on the same path, a successful read_file result begins  *)
(* with the marker if and only if the bytes it returns contain a null byte *)
(* within their first 8192 bytes.                                          *)
(***************************************************************************)
ReturnedBytes(text) ==
    IF HasMarker(text) THEN Base64Decode(AfterMarker(text)) ELSE text

C10_AsStated ==
    (last.tool = "read_file" /\ last.result.ok) =>
        (HasMarker(last.result.content[1])
            <=> ~NoNullInWindow(ReturnedBytes(last.result.content[1])))

\* C10, amended: a successful read_file result is the marker followed by the
\* base64 of the bytes read when those bytes have a null byte within their
\* first 8192 bytes, and the bytes verbatim otherwise, whenever the content
\* read begins with the sample the classification read.  A write_file or
\* delete_file that lands between the two changes that: the result may carry
\* the marker for bytes without a null, or no marker for bytes with one.
C10_SameSample ==
    [][(/\ rd.pc = "classified"
        /\ ReadFileRead
        /\ last'.result.ok
        /\ Take(fs[rd.path].data, 8192) = rd.buffer)
       => LET bytes == fs[rd.path].data
              text == last'.result.content[1]
          IN /\ Len(last'.result.content) = 1
             /\ IF NoNullInWindow(bytes)
                THEN text = bytes
                ELSE HasMarker(text) /\ Base64Decode(AfterMarker(text)) = bytes]_vars

\* A read_file that completed right after a write_file of the same path
\* returned the marker and the base64 of a file with a null byte.
C10_Witness ==
    /\ last.tool = "read_file"
    /\ last.result.ok
    /\ prev = [tool |-> "write_file", path |-> last.path, ok |-> TRUE]
    /\ Kind(fs, last.path) = "file"
    /\ ~NoNullInWindow(fs[last.path].data)
    /\ HasMarker(last.result.content[1])
    /\ Base64Decode(AfterMarker(last.result.content[1])) = fs[last.path].data

=============================================================================
